---- MODULE Spec2Model ----
(***************************************************************************)
(* Model of the transmission-line pipeline of electric_tower_utils.py:     *)
(*   split_txlines_by_region  (Region Partitioner)                         *)
(*   get_tower_coords         (Line-to-Point Decomposer)                   *)
(*   df_subset                (Subset Filter)                              *)
(*                                                                         *)
(* Geometry is discretised: a point is a pair <<lon, lat>>, a state        *)
(* polygon is the set of sample points it covers, a line is the sequence   *)
(* of its vertices, and polygon.contains(line) holds when every vertex of  *)
(* the line is covered.  A line with some but not all vertices covered     *)
(* partially overlaps the polygon.                                         *)
(*                                                                         *)
(* A pandas DataFrame is a sequence of row records.  DataFrames that the   *)
(* code mutates in place after storing a reference to them (region_df)     *)
(* live in a heap, and tx_lines holds references into it.                  *)
(***************************************************************************)
EXTENDS Integers, Sequences, FiniteSets, TLC

\* ------------------------------------------------------------------ bounds
MaxRegions == 2
MaxStates == 2
MaxLines == 2
MaxVertices == 3
MaxRows == 2

\* ------------------------------------------------- reference configuration
\* Sample points along a west-east chain; Pt(i) = <<lon, lat>>.
Pt(i) == <<i, i + 40>>

\* CONSTANTS.REGION_NAMES: the declared region names, in declaration order.
REGION_NAMES == <<"NE", "NW", "SW", "EM">>

\* CONSTANTS.US_STATES: state name -> boundary geometry.  VT and NH overlap
\* on Pt(2), Pt(3); GU resolves to a geometry that is no polygon; any other
\* name (ZZ) is absent from the table.
US_STATES ==
  [s \in {"VT", "NH", "GU"} |->
     CASE s = "VT" -> [geom_type |-> "Polygon", area |-> {Pt(1), Pt(2), Pt(3)}]
       [] s = "NH" -> [geom_type |-> "MultiPolygon", area |-> {Pt(2), Pt(3), Pt(4)}]
       [] s = "GU" -> [geom_type |-> "Point", area |-> {Pt(5)}]]

\* State names a region's member list may mention.
StateNames == {"VT", "NH", "GU", "ZZ"}

\* ------------------------------------------------------------ sequences
Min(a, b) == IF a <= b THEN a ELSE b

\* Sequences over S of length lo..hi.
SeqsOf(S, lo, hi) == UNION {[1..n -> S] : n \in lo..hi}

NoDup(s) == \A i, j \in 1..Len(s) : s[i] = s[j] => i = j

RECURSIVE Flatten(_)
\* pd.concat of a list of DataFrames: the rows of each, in list order.
Flatten(dfs) == IF dfs = <<>> THEN <<>> ELSE Head(dfs) \o Flatten(Tail(dfs))

\* ------------------------------------------------------------- geometry
\* polygon.contains(line): every vertex of the line is covered.
Contains(valid_area, line) ==
  \A i \in 1..Len(line.coords) : line.coords[i] \in valid_area.area

\* Polylines along the chain: vertices Pt(a), Pt(a+1), ..., 2..MaxVertices of them.
Polyline(a, k) == [i \in 1..k |-> Pt(a + i - 1)]
Polylines ==
  {Polyline(p[1], p[2]) :
     p \in {q \in (1..4) \X (2..MaxVertices) : q[1] + q[2] - 1 <= 5}}

Geometries ==
  [geom_type : {"LineString", "MultiLineString"}, coords : Polylines]

\* The i-th feature of the shapefile with geometry g; attributes are fixed
\* per feature so that copies can be told apart.
Feature(i, g) ==
  [ID |-> i, SHAPE_Leng |-> 10 * i + Len(g.coords), VOLTAGE |-> 115 * i,
   OWNER |-> IF i = 1 THEN "GMP" ELSE "PSNH", geometry |-> g]

\* The feature collections gpd.read_file may return: 1..MaxLines features.
Shapefiles ==
  {[i \in 1..Len(gs) |-> Feature(i, gs[i])] : gs \in SeqsOf(Geometries, 1, MaxLines)}

\* The member-state lists a region may declare: 0..MaxStates distinct names.
StateLists == {l \in SeqsOf(StateNames, 0, MaxStates) : NoDup(l)}

\* region_states arguments: one member-state list per region, 0..MaxRegions regions.
RegionStates == SeqsOf(StateLists, 0, MaxRegions)

\* ------------------------------------------------------------------ state
VARIABLES
  region_states,  \* argument of split_txlines_by_region
  tmp_gdf,        \* the feature collection read from the shapefile
  split_pc,       \* "idle", "done" (returned) or "error" (left by an exception)
  split_exc,      \* the exception that ended split_txlines_by_region, or "none"
  tower_pc,       \* the same for get_tower_coords
  tower_exc,
  logf_split,     \* the handle opened at line 64: "unopened", "open", "closed"
  logf_tower,     \* the handle opened at line 111
  error_log,      \* content of output_dir/error.log
  tx_lines_csv,   \* output_dir/tx_lines.csv
  tower_csv,      \* output_dir/tower_coordinates.csv
  df,             \* argument of df_subset
  calls,          \* the df_subset calls made so far, chained on their results
  result          \* the table returned by the last df_subset call

vars == <<region_states, tmp_gdf, split_pc, split_exc, tower_pc, tower_exc,
          logf_split, logf_tower, error_log, tx_lines_csv, tower_csv,
          df, calls, result>>

pipeline_vars == <<region_states, tmp_gdf, split_pc, split_exc, tower_pc, tower_exc,
                   logf_split, logf_tower, error_log, tx_lines_csv, tower_csv>>

subset_vars == <<df, calls, result>>

\* ------------------------------------------------ split_txlines_by_region
\* Column value of a row whose column was never assigned.
NaN == "NaN"

\* WKT text of a geometry, as to_csv writes the geometry column.
ToWkt(g) ==
  [tag |-> IF g.geom_type = "LineString" THEN "LINESTRING" ELSE "MULTILINESTRING",
   text |-> g.coords]

\* shapely.wkt.loads
WktLoads(w) ==
  [geom_type |-> IF w.tag = "LINESTRING" THEN "LineString" ELSE "MultiLineString",
   coords |-> w.text]

\* temp_df after the containment scan of lines 84-89: the contained features,
\* in feature order, each with the column state set.
ScanState(gdf, valid_area, state) ==
  LET hit == SelectSeq(gdf, LAMBDA row : Contains(valid_area, row.geometry))
  IN [j \in 1..Len(hit) |->
        [ID |-> hit[j].ID, SHAPE_Leng |-> hit[j].SHAPE_Leng,
         VOLTAGE |-> hit[j].VOLTAGE, OWNER |-> hit[j].OWNER,
         geometry |-> hit[j].geometry, state |-> state, region |-> NaN]]

\* region_df['region'] = region_name, in place.
StampRegion(region_df, region_name) ==
  [j \in 1..Len(region_df) |-> [region_df[j] EXCEPT !.region = region_name]]

\* A lookup that accepts whatever geometry the reference table holds.
LookupAnyGeometry(state) ==
  IF state \notin DOMAIN US_STATES THEN "IndexError" ELSE "none"

\* Lines 79-83: the exception the polygon lookup of a state raises, or "none".
\* .values[0] of an empty selection raises IndexError; a geometry that is
\* neither Polygon nor MultiPolygon raises ValueError.
LookupPolygon(state) ==
  IF state \notin DOMAIN US_STATES THEN "IndexError"
  ELSE IF US_STATES[state].geom_type \notin {"Polygon", "MultiPolygon"} THEN "ValueError"
  ELSE "none"

\* A region table that keeps only the state scanned last.
LastOfRegionList(region_list) == region_list[Len(region_list)]

\* Line 93: region_df = pd.concat(region_list).
ConcatRegionList(region_list) == Flatten(region_list)

RECURSIVE StateLoop(_, _, _, _)
\* The loop over the member states of one region, lines 77-93, from the k-th.
\* st: heap (DataFrame objects), region_df (reference into heap, 0 = unbound),
\* region_list, tx_lines (references), log, exc.
StateLoop(region_state, k, gdf, st) ==
  IF k > Len(region_state) \/ st.exc # "none" THEN st
  ELSE LET state == region_state[k] IN
    IF LookupPolygon(state) # "none"
    THEN [st EXCEPT !.exc = LookupPolygon(state)]
    ELSE
      LET temp_df == ScanState(gdf, US_STATES[state], state)
          region_list == Append(st.region_list, temp_df)
          heap == Append(st.heap, ConcatRegionList(region_list))
      IN StateLoop(region_state, k + 1, gdf,
           [st EXCEPT !.log = Append(@, <<"count", state, Len(temp_df)>>),
                      !.region_list = region_list,
                      !.heap = heap,
                      !.region_df = Len(heap)])

RECURSIVE RegionLoop(_, _, _, _, _)
\* The loop over zip(region_names, region_states), lines 73-95, from the r-th.
RegionLoop(region_names, states, r, gdf, st) ==
  IF r > Min(Len(region_names), Len(states)) \/ st.exc # "none" THEN st
  ELSE
    LET region_name == region_names[r]
        st1 == StateLoop(states[r], 1, gdf,
                 [st EXCEPT !.log = Append(@, <<"region", region_name>>),
                            !.region_list = <<>>])
    IN IF st1.exc # "none" THEN st1
       ELSE IF st1.region_df = 0 THEN [st1 EXCEPT !.exc = "UnboundLocalError"]
       ELSE RegionLoop(region_names, states, r + 1, gdf,
              [st1 EXCEPT !.heap[st1.region_df] = StampRegion(@, region_name),
                          !.tx_lines = Append(@, st1.region_df)])

\* Lines 64-95: the state of the function when the loops end or raise.
SplitLoops(region_names, states, gdf) ==
  RegionLoop(region_names, states, 1, gdf,
    [heap |-> <<>>, region_df |-> 0, region_list |-> <<>>, tx_lines |-> <<>>,
     log |-> <<<<"start">>>>, exc |-> "none"])

\* pd.concat(tx_lines): the rows of the referenced DataFrames, as they are now.
ConcatRefs(tx_lines, heap) == Flatten([i \in 1..Len(tx_lines) |-> heap[tx_lines[i]]])

\* to_csv(index=False) of the partitioned table: the geometry column as WKT.
\* A table with no rows has only the columns state and region.
TxLinesCsv(rows) ==
  [exists |-> TRUE,
   header |-> IF rows = <<>> THEN {"state", "region"}
              ELSE {"ID", "SHAPE_Leng", "VOLTAGE", "OWNER", "geometry", "state", "region"},
   rows |-> [j \in 1..Len(rows) |-> [rows[j] EXCEPT !.geometry = ToWkt(@)]]]

NoFile == [exists |-> FALSE, header |-> {}, rows |-> <<>>]

split_txlines_by_region ==
  /\ split_pc = "idle"
  /\ LET st == SplitLoops(REGION_NAMES, region_states, tmp_gdf)
         exc == IF st.exc # "none" THEN st.exc
                ELSE IF st.tx_lines = <<>> THEN "ValueError" ELSE "none"
     IN /\ split_exc' = exc
        /\ split_pc' = IF exc = "none" THEN "done" ELSE "error"
        /\ error_log' = st.log
        /\ logf_split' = IF exc = "none" THEN "closed" ELSE "open"
        /\ tx_lines_csv' = IF exc = "none"
                           THEN TxLinesCsv(ConcatRefs(st.tx_lines, st.heap))
                           ELSE tx_lines_csv
  /\ UNCHANGED <<region_states, tmp_gdf, tower_pc, tower_exc, logf_tower,
                 tower_csv, df, calls, result>>

\* ------------------------------------------------------- get_tower_coords
\* pd.read_csv followed by wkt.loads on the geometry column, lines 120-124.
ReadCsv(file) ==
  [j \in 1..Len(file.rows) |-> [file.rows[j] EXCEPT !.geometry = WktLoads(@)]]

\* A type test that also accepts the multi-part variant of a line.
IsAnyLineString(geometry) ==
  geometry.geom_type \in {"LineString", "MultiLineString"}

\* Line 133: row.geometry.geom_type == 'LineString'.
IsLineString(geometry) == geometry.geom_type = "LineString"

\* One row per vertex, with the two coordinate columns exchanged.
TowerPointsLatLon(row) ==
  [i \in 1..Len(row.geometry.coords) |->
     [id |-> row.ID, tx_line_length |-> row.SHAPE_Leng, voltage |-> row.VOLTAGE,
      state |-> row.state, region |-> row.region, owner |-> row.OWNER,
      lon |-> row.geometry.coords[i][2], lat |-> row.geometry.coords[i][1]]]

\* The DataFrame appended at lines 135-143: one row per vertex of the line.
TowerPoints(row) ==
  [i \in 1..Len(row.geometry.coords) |->
     [id |-> row.ID, tx_line_length |-> row.SHAPE_Leng, voltage |-> row.VOLTAGE,
      state |-> row.state, region |-> row.region, owner |-> row.OWNER,
      lon |-> row.geometry.coords[i][1], lat |-> row.geometry.coords[i][2]]]

RECURSIVE TowerLoop(_, _, _)
\* The loop over gdf.iterrows(), lines 131-148, from the j-th row (index j-1).
\* st: temp_df and the lines written to the log.
TowerLoop(gdf, j, st) ==
  IF j > Len(gdf) THEN st
  ELSE LET row == gdf[j] IN
    IF IsLineString(row.geometry)
    THEN TowerLoop(gdf, j + 1, [st EXCEPT !.temp_df = @ \o TowerPoints(row)])
    ELSE TowerLoop(gdf, j + 1,
           [st EXCEPT !.log = Append(@, <<"skip", row.ID, j - 1, row.geometry.geom_type>>)])

get_tower_coords ==
  /\ tower_pc = "idle"
  /\ split_pc # "idle"
  /\ LET exc == IF ~tx_lines_csv.exists THEN "FileNotFoundError"
                ELSE IF "geometry" \notin tx_lines_csv.header THEN "KeyError"
                ELSE "none"
         st == TowerLoop(ReadCsv(tx_lines_csv), 1,
                         [temp_df |-> <<>>, log |-> <<<<"start">>>>])
     IN /\ tower_exc' = exc
        /\ tower_pc' = IF exc = "none" THEN "done" ELSE "error"
        /\ error_log' = IF exc = "none" THEN st.log ELSE <<<<"start">>>>
        /\ logf_tower' = IF exc = "none" THEN "closed" ELSE "open"
        /\ tower_csv' = IF exc = "none"
                        THEN [exists |-> TRUE, rows |-> st.temp_df]
                        ELSE tower_csv
  /\ UNCHANGED <<region_states, tmp_gdf, split_pc, split_exc, logf_split,
                 tx_lines_csv, df, calls, result>>

\* -------------------------------------------------------------- df_subset
\* Python floats: finite values and the two infinities.
Float(n) == [inf |-> 0, val |-> n]
NegInf == [inf |-> -1, val |-> 0]
PosInf == [inf |-> 1, val |-> 0]

\* x <= y on floats.
Leq(x, y) == \/ x.inf < y.inf
             \/ x.inf = y.inf /\ (x.inf # 0 \/ x.val <= y.val)

\* A filter whose upper bound is exclusive.
df_subset_open(table, feature, min_value, max_value) ==
  SelectSeq(table, LAMBDA row : /\ Leq(min_value, Float(row[feature]))
                                /\ ~Leq(max_value, Float(row[feature])))

\* Line 168: the rows with min_value <= row[feature] <= max_value, in order.
df_subset(table, feature, min_value, max_value) ==
  SelectSeq(table, LAMBDA row : /\ Leq(min_value, Float(row[feature]))
                                /\ Leq(Float(row[feature]), max_value))

Values == {115, 230, 345}
Features == {"voltage", "tx_line_length"}
FilterBounds == {NegInf, PosInf} \cup {Float(v) : v \in Values}

\* Tower-point tables handed to df_subset: 0..MaxRows rows, numbered by id.
PointTables ==
  {[i \in 1..Len(vs) |->
      [id |-> i, tx_line_length |-> vs[i][2], voltage |-> vs[i][1],
       state |-> "VT", region |-> "NE", owner |-> "GMP", lon |-> i, lat |-> i + 40]] :
     vs \in SeqsOf(Values \X {115, 345}, 0, MaxRows)}

\* df_subset(df, feature, min_value, max_value) on the input table.
DfSubsetFirst ==
  /\ calls = <<>>
  /\ \E feature \in Features, min_value \in FilterBounds, max_value \in FilterBounds :
       /\ result' = df_subset(df, feature, min_value, max_value)
       /\ calls' = <<[feature |-> feature, min_value |-> min_value, max_value |-> max_value]>>
  /\ UNCHANGED <<df, region_states, tmp_gdf, split_pc, split_exc, tower_pc, tower_exc,
                 logf_split, logf_tower, error_log, tx_lines_csv, tower_csv>>

\* df_subset applied to the table the previous call returned.
DfSubsetChained ==
  /\ Len(calls) = 1
  /\ \E feature \in Features, min_value \in FilterBounds, max_value \in FilterBounds :
       /\ result' = df_subset(result, feature, min_value, max_value)
       /\ calls' = Append(calls, [feature |-> feature, min_value |-> min_value,
                                  max_value |-> max_value])
  /\ UNCHANGED <<df, region_states, tmp_gdf, split_pc, split_exc, tower_pc, tower_exc,
                 logf_split, logf_tower, error_log, tx_lines_csv, tower_csv>>

\* ---------------------------------------------------------- specifications
Idle ==
  /\ split_pc = "idle" /\ split_exc = "none"
  /\ tower_pc = "idle" /\ tower_exc = "none"
  /\ logf_split = "unopened" /\ logf_tower = "unopened"
  /\ error_log = <<>>
  /\ tx_lines_csv = NoFile
  /\ tower_csv = [exists |-> FALSE, rows |-> <<>>]
  /\ calls = <<>> /\ result = <<>>

\* The pipeline: a shapefile and a region configuration, partitioned and decomposed.
Init ==
  /\ region_states \in RegionStates
  /\ tmp_gdf \in Shapefiles
  /\ df = <<>>
  /\ Idle

Next == split_txlines_by_region \/ get_tower_coords

Spec == Init /\ [][Next]_vars

\* The subset filter on its own, applied once or twice to a point table.
InitSubset ==
  /\ region_states = <<>>
  /\ tmp_gdf = <<>>
  /\ df \in PointTables
  /\ Idle

NextSubset == DfSubsetFirst \/ DfSubsetChained

SpecSubset == InitSubset /\ [][NextSubset]_vars

\* ------------------------------------------------------------ properties
\* Helpers of the properties below; none of them is used by the model.
RECURSIVE SumTo(_, _)
SumTo(f, n) == IF n = 0 THEN 0 ELSE f[n] + SumTo(f, n - 1)

\* Number of vertices row j of tx_lines.csv contributes: its vertex count if
\* its WKT is a LINESTRING, else none.
Vertices(j) ==
  IF tx_lines_csv.rows[j].geometry.tag = "LINESTRING"
  THEN Len(tx_lines_csv.rows[j].geometry.text) ELSE 0

\* Number of tower points due to the rows before row j.
Offset(j) == SumTo([m \in 1..Len(tx_lines_csv.rows) |-> Vertices(m)], j - 1)

\* C1: when get_tower_coords returns, every LineString row j of its input with
\* k vertices owns the k output rows Offset(j)+1 .. Offset(j)+k (one contiguous
\* run, runs in input-row order), each with the row's id, voltage, owner, state
\* and region, and the i-th with lon/lat of the i-th vertex.
C1_LineStringDecomposed ==
  tower_pc = "done" =>
    \A j \in 1..Len(tx_lines_csv.rows) :
      LET row == tx_lines_csv.rows[j] IN
      row.geometry.tag = "LINESTRING" =>
        /\ Offset(j) + Len(row.geometry.text) <= Len(tower_csv.rows)
        /\ \A i \in 1..Len(row.geometry.text) :
             LET point == tower_csv.rows[Offset(j) + i] IN
             /\ point.id = row.ID
             /\ point.voltage = row.VOLTAGE
             /\ point.owner = row.OWNER
             /\ point.state = row.state
             /\ point.region = row.region
             /\ point.lon = row.geometry.text[i][1]
             /\ point.lat = row.geometry.text[i][2]
        /\ Len(tower_csv.rows) = Offset(Len(tx_lines_csv.rows) + 1)

\* A three-vertex LineString row decomposed after an earlier row of another line.
C1_Witness ==
  /\ tower_pc = "done"
  /\ \E j \in 2..Len(tx_lines_csv.rows) :
       /\ tx_lines_csv.rows[j].geometry.tag = "LINESTRING"
       /\ Len(tx_lines_csv.rows[j].geometry.text) = 3
       /\ tx_lines_csv.rows[j - 1].ID # tx_lines_csv.rows[j].ID
       /\ Offset(j) > 0
       /\ Len(tower_csv.rows) >= Offset(j) + 3

\* The skip entries get_tower_coords should write: one per row that is no
\* LineString, in row order, with the row's ID and its 0-based position.
RECURSIVE ExpectedSkips(_)
ExpectedSkips(j) ==
  IF j = 0 THEN <<>>
  ELSE IF tx_lines_csv.rows[j].geometry.tag = "LINESTRING"
       THEN ExpectedSkips(j - 1)
       ELSE Append(ExpectedSkips(j - 1),
                   <<"skip", tx_lines_csv.rows[j].ID, j - 1, "MultiLineString">>)

\* C5: when get_tower_coords returns, a row that is no LineString has no tower
\* point, the log holds exactly one skip entry (ID, positional index) per such
\* row, and the output has exactly the points of the LineString rows, so the
\* rows after a skipped one were processed.
C5_NonLineStringSkipped ==
  tower_pc = "done" =>
    /\ \A j \in 1..Len(tx_lines_csv.rows) :
         tx_lines_csv.rows[j].geometry.tag # "LINESTRING" =>
           \A i \in 1..Len(tower_csv.rows) :
             tower_csv.rows[i].id # tx_lines_csv.rows[j].ID
    /\ SelectSeq(error_log, LAMBDA e : e[1] = "skip") = ExpectedSkips(Len(tx_lines_csv.rows))
    /\ Len(tower_csv.rows) = Offset(Len(tx_lines_csv.rows) + 1)

\* A skipped row followed by a LineString row that was decomposed.
C5_Witness ==
  /\ tower_pc = "done"
  /\ \E j \in 1..Len(tx_lines_csv.rows) - 1 :
       /\ tx_lines_csv.rows[j].geometry.tag # "LINESTRING"
       /\ tx_lines_csv.rows[j + 1].geometry.tag = "LINESTRING"
  /\ Len(SelectSeq(error_log, LAMBDA e : e[1] = "skip")) >= 1
  /\ tower_csv.rows # <<>>

\* ---- properties of split_txlines_by_region
\* The regions the loop of line 73 visits.
NumRegions == Min(Len(REGION_NAMES), Len(region_states))

\* The declared states in iteration order, all regions.
DeclaredFlat == Flatten([r \in 1..NumRegions |-> region_states[r]])

\* The state resolves to a Polygon or MultiPolygon.
Resolves(state) ==
  /\ state \in DOMAIN US_STATES
  /\ US_STATES[state].geom_type \in {"Polygon", "MultiPolygon"}

\* Feature f lies fully inside the polygon of the state.
Inside(f, state) ==
  /\ Resolves(state)
  /\ \A i \in 1..Len(tmp_gdf[f].geometry.coords) :
       tmp_gdf[f].geometry.coords[i] \in US_STATES[state].area

\* The rows of tx_lines.csv of feature f stamped with region r's name.
RowsOf(f, r) ==
  {j \in 1..Len(tx_lines_csv.rows) :
     /\ tx_lines_csv.rows[j].ID = tmp_gdf[f].ID
     /\ tx_lines_csv.rows[j].region = REGION_NAMES[r]}

\* The per-state counts logged under the header of region r.
Header(r) == CHOOSE i \in 1..Len(error_log) :
               error_log[i][1] = "region" /\ error_log[i][2] = REGION_NAMES[r]
CountsOf(r) ==
  {i \in 1..Len(error_log) :
     /\ error_log[i][1] = "count"
     /\ i > Header(r)
     /\ (r < NumRegions => i < Header(r + 1))}
AllCounts == SelectSeq(error_log, LAMBDA e : e[1] = "count")

\* C2: after a completed partition run, a line fully inside exactly one of a
\* region's declared state polygons has exactly one row stamped with that
\* region, and that row is stamped with that state.
C2_ContainedOnceInRegion ==
  split_pc = "done" =>
    \A f \in 1..Len(tmp_gdf), r \in 1..NumRegions :
      LET holders == {k \in 1..Len(region_states[r]) : Inside(f, region_states[r][k])}
      IN Cardinality(holders) = 1 =>
           /\ Cardinality(RowsOf(f, r)) = 1
           /\ \A j \in RowsOf(f, r), k \in holders :
                tx_lines_csv.rows[j].state = region_states[r][k]

\* C3: a line contained by no declared state polygon of a region has no row
\* for that region in tx_lines.csv nor in tower_coordinates.csv, and when no
\* line is contained by any declared state of the region every count logged
\* for the region is 0.
C3_OutsideNoRows ==
  /\ split_pc = "done" =>
       \A f \in 1..Len(tmp_gdf), r \in 1..NumRegions :
         (\A k \in 1..Len(region_states[r]) : ~Inside(f, region_states[r][k])) =>
           /\ RowsOf(f, r) = {}
           /\ tower_pc = "done" =>
                \A i \in 1..Len(tower_csv.rows) :
                  ~(/\ tower_csv.rows[i].id = tmp_gdf[f].ID
                    /\ tower_csv.rows[i].region = REGION_NAMES[r])
  /\ split_pc = "done" /\ tower_pc = "idle" =>
       \A r \in 1..NumRegions :
         (\A f \in 1..Len(tmp_gdf), k \in 1..Len(region_states[r]) :
            ~Inside(f, region_states[r][k])) =>
           \A i \in CountsOf(r) : error_log[i][3] = 0

\* Position of a row in the declared order: region, state within the region
\* (0 when the region does not declare the state), input feature.
StateIndex(r, state) ==
  IF r <= Len(region_states) /\ \E k \in 1..Len(region_states[r]) : region_states[r][k] = state
  THEN CHOOSE k \in 1..Len(region_states[r]) : region_states[r][k] = state
  ELSE 0
RegionIndex(region) ==
  IF \E r \in 1..Len(REGION_NAMES) : REGION_NAMES[r] = region
  THEN CHOOSE r \in 1..Len(REGION_NAMES) : REGION_NAMES[r] = region
  ELSE 0
Key(row) == <<RegionIndex(row.region), StateIndex(RegionIndex(row.region), row.state), row.ID>>
Before(a, b) ==
  \/ a[1] < b[1]
  \/ a[1] = b[1] /\ a[2] < b[2]
  \/ a[1] = b[1] /\ a[2] = b[2] /\ a[3] < b[3]

\* C4: the rows of tx_lines.csv are ordered by region in declaration order,
\* then by state in the region's declaration order, then by input feature.
C4_GroupedOrder ==
  split_pc = "done" =>
    \A j \in 1..Len(tx_lines_csv.rows) - 1 :
      Before(Key(tx_lines_csv.rows[j]), Key(tx_lines_csv.rows[j + 1]))

\* A declared state that does not resolve to a polygon.
Bad(i) == ~Resolves(DeclaredFlat[i])
FirstBad == CHOOSE i \in 1..Len(DeclaredFlat) :
              Bad(i) /\ \A m \in 1..(i - 1) : ~Bad(m)

\* C6: when some declared state does not resolve to a Polygon or MultiPolygon,
\* the run ends in an error, tx_lines.csv is not written, and no count is
\* logged for that state or any state after it: the run stops at that state
\* with the lookup's exception, unless a first region without states had
\* already stopped it.
C6_UnresolvedStateAborts ==
  (split_pc # "idle" /\ \E i \in 1..Len(DeclaredFlat) : Bad(i)) =>
    /\ split_pc = "error"
    /\ split_exc # "none"
    /\ ~tx_lines_csv.exists
    /\ tower_pc = "idle" => Len(AllCounts) < FirstBad
    /\ tower_pc = "idle" /\ split_exc # "UnboundLocalError" =>
         /\ Len(AllCounts) = FirstBad - 1
         /\ split_exc = IF DeclaredFlat[FirstBad] \in DOMAIN US_STATES
                        THEN "ValueError" ELSE "IndexError"
    /\ split_exc = "UnboundLocalError" => region_states[1] = <<>>

\* A run aborted at a bad state after counting an earlier state, with a
\* declared state left unprocessed after the bad one.
C6_Witness ==
  /\ split_pc = "error"
  /\ tower_pc = "idle"
  /\ \E i \in 1..Len(DeclaredFlat) : Bad(i)
  /\ FirstBad < Len(DeclaredFlat)
  /\ Resolves(DeclaredFlat[Len(DeclaredFlat)])
  /\ split_exc \in {"IndexError", "ValueError"}
  /\ Len(AllCounts) = FirstBad - 1
  /\ Len(AllCounts) >= 2

\* C7: once an operation has ended, by returning or by an exception, the log
\* handle it opened is closed.
C7_LogHandleClosed ==
  /\ split_pc \in {"done", "error"} => logf_split = "closed"
  /\ tower_pc \in {"done", "error"} => logf_tower = "closed"

\* The declared states containing feature f, and the one processed last.
Holders(f) == {i \in 1..Len(DeclaredFlat) : Inside(f, DeclaredFlat[i])}
LastHolder(f) == CHOOSE i \in Holders(f) : \A m \in Holders(f) : m <= i
MultiplyHeld(f) == \E i, m \in Holders(f) : DeclaredFlat[i] # DeclaredFlat[m]
RowsOfFeature(f) ==
  {j \in 1..Len(tx_lines_csv.rows) : tx_lines_csv.rows[j].ID = tmp_gdf[f].ID}

\* C9 as stated: a line contained by more than one declared state is assigned
\* to the state processed last, so every row of the line carries that state.
C9_LastStateWins ==
  split_pc = "done" =>
    \A f \in 1..Len(tmp_gdf) :
      MultiplyHeld(f) =>
        \A j \in RowsOfFeature(f) :
          tx_lines_csv.rows[j].state = DeclaredFlat[LastHolder(f)]

\* C9 amended: a line contained by more than one declared state keeps a row
\* for each of those states, stamped with that state; the state processed
\* last only stamps the last of the line's rows.
C9_EveryHolderKeepsRow ==
  split_pc = "done" =>
    \A f \in 1..Len(tmp_gdf) :
      MultiplyHeld(f) =>
        /\ \A i \in Holders(f) :
             \E j \in RowsOfFeature(f) : tx_lines_csv.rows[j].state = DeclaredFlat[i]
        /\ \A j \in RowsOfFeature(f) :
             (\A m \in RowsOfFeature(f) : m <= j) =>
               tx_lines_csv.rows[j].state = DeclaredFlat[LastHolder(f)]

\* A line inside both VT and NH, declared in one region, with a row for each.
C9_Witness ==
  /\ split_pc = "done"
  /\ \E f \in 1..Len(tmp_gdf) :
       /\ MultiplyHeld(f)
       /\ \E j, m \in RowsOfFeature(f) :
            /\ j < m
            /\ tx_lines_csv.rows[j].state # tx_lines_csv.rows[m].state
            /\ tx_lines_csv.rows[j].region = tx_lines_csv.rows[m].region

\* C10: every row of tx_lines.csv names a declared region whose member list
\* holds the row's state, and there are as many rows as the logged counts add
\* up to.
C10_RegionStateConsistent ==
  split_pc = "done" =>
    /\ \A j \in 1..Len(tx_lines_csv.rows) :
         \E r \in 1..NumRegions :
           /\ REGION_NAMES[r] = tx_lines_csv.rows[j].region
           /\ \E k \in 1..Len(region_states[r]) :
                region_states[r][k] = tx_lines_csv.rows[j].state
    /\ tower_pc = "idle" =>
         Len(tx_lines_csv.rows) = SumTo([i \in 1..Len(AllCounts) |-> AllCounts[i][3]],
                                        Len(AllCounts))

\* ---- properties of df_subset
\* C8: filtering by [a, b] and then the result by [b, c] on the same
\* attribute, a <= b <= c, returns exactly the rows of the input whose
\* attribute equals b, in their original order.
C8_CompositionKeepsBoundary ==
  (/\ Len(calls) = 2
   /\ calls[1].feature = calls[2].feature
   /\ calls[1].max_value = calls[2].min_value
   /\ Leq(calls[1].min_value, calls[1].max_value)
   /\ Leq(calls[2].min_value, calls[2].max_value)) =>
    result = SelectSeq(df, LAMBDA row : Float(row[calls[1].feature]) = calls[1].max_value)

\* Two chained filters sharing the bound 230 on a table that holds a row
\* below it, a row above it and a row equal to it, which alone is returned.
C8_Witness ==
  /\ Len(calls) = 2
  /\ calls[1].feature = "voltage" /\ calls[2].feature = "voltage"
  /\ calls[1].min_value = Float(115)
  /\ calls[1].max_value = Float(230) /\ calls[2].min_value = Float(230)
  /\ calls[2].max_value = PosInf
  /\ Len(result) = 1 /\ result[1].voltage = 230
  /\ \E i \in 1..Len(df) : df[i].voltage = 115

====
